---- MODULE Spec2Model ----
(***************************************************************************)
(* A model of the blackjack rules engine: cards, the incremental hand      *)
(* evaluator, the shoe and the table state machine.                        *)
(***************************************************************************)
EXTENDS Integers, Sequences, FiniteSets, Bags

\* ------------------------------------------------------------------ bounds

\* Longest hand built by the hand specification.
MaxHandLen == 4

\* The shoes of the shoe specification hold 0..MaxDecks decks.
MaxDecks == 2

\* A run of the shoe specification calls Shoe::deal while the shoe has
\* returned fewer than MaxShoeDealt cards since it was built.
MaxShoeDealt == 4

\* A run of the table specification goes on while fewer than MaxDealt
\* cards are out of the shoe of the table (MaxDealtNoSpot on a table
\* without spots), and no deal of it takes the shoe beyond that number.
\* Within the bound a call has every outcome that a shuffle can give it.
MaxDealt == 5
MaxDealtNoSpot == 4

\* The bets of the bet specification: an addition or a multiplication is
\* taken while its result is of MaxUnits units at most, and the factors of
\* a multiplication are 0..MaxFactor. (usize arithmetic stays far below
\* its width under these bounds.)
MaxUnits == 30
MaxFactor == 2

\* ------------------------------------------------------------------- cards

Suits == <<"Heart", "Diamond", "Club", "Spade">>

Ranks == <<"Ace", "Two", "Three", "Four", "Five", "Six", "Seven", "Eight",
           "Nine", "Ten", "Jack", "Queen", "King">>

RankSet == {Ranks[i] : i \in 1..Len(Ranks)}

\* Card::new. A card is kept by its rank: the suit of a card is read by
\* Card::suit and by the Display of a card and by nothing else, so that no
\* value, count, hand, shoe or table depends on it. A deck has Len(Suits)
\* cards of each rank.
Card(r) == [rank |-> r]

\* Card::values: the point values of a card, low value first.
values(card) ==
    CASE card.rank = "Ace"   -> <<1, 11>>
      [] card.rank = "Two"   -> <<2>>
      [] card.rank = "Three" -> <<3>>
      [] card.rank = "Four"  -> <<4>>
      [] card.rank = "Five"  -> <<5>>
      [] card.rank = "Six"   -> <<6>>
      [] card.rank = "Seven" -> <<7>>
      [] card.rank = "Eight" -> <<8>>
      [] card.rank = "Nine"  -> <<9>>
      [] card.rank \in {"Ten", "Jack", "Queen", "King"} -> <<10>>

is_ace(card) == card.rank = "Ace"

\* ------------------------------------------------------- u8 arithmetic

\* The arithmetic of u8 is checked, as the dev and test profiles build it:
\* a result outside 0..255 is a panic with one of these messages.
AddOverflow == "attempt to add with overflow"
SubOverflow == "attempt to subtract with overflow"
MulOverflow == "attempt to multiply with overflow"

\* What an arm of Hand::insert gives when it panics.
Panicked(msg) == [panic |-> msg]
IsPanicked(val) == "panic" \in DOMAIN val

\* ---------------------------------------------------------- sequences

RECURSIVE SeqMin(_)
SeqMin(s) ==
    IF Len(s) = 1 THEN s[1]
    ELSE LET m == SeqMin(Tail(s)) IN IF s[1] <= m THEN s[1] ELSE m

RECURSIVE SeqMax(_)
SeqMax(s) ==
    IF Len(s) = 1 THEN s[1]
    ELSE LET m == SeqMax(Tail(s)) IN IF s[1] > m THEN s[1] ELSE m

\* The derived ordering of a pair (u8, u8): first component, then second.
PairLess(p, q) == p[1] < q[1] \/ (p[1] = q[1] /\ p[2] < q[2])

RECURSIVE PairMin(_)
PairMin(s) ==
    IF Len(s) = 1 THEN s[1]
    ELSE LET m == PairMin(Tail(s)) IN IF PairLess(m, s[1]) THEN m ELSE s[1]

RECURSIVE PairMax(_)
PairMax(s) ==
    IF Len(s) = 1 THEN s[1]
    ELSE LET m == PairMax(Tail(s)) IN IF PairLess(m, s[1]) THEN s[1] ELSE m

Reverse(s) == [i \in 1..Len(s) |-> s[Len(s) + 1 - i]]

\* ------------------------------------------------------------- the hand

Blackjack == [tag |-> "Blackjack"]
Soft(v, a) == [tag |-> "Soft", v |-> v, a |-> a]
Hard(v) == [tag |-> "Hard", v |-> v]
Bust == [tag |-> "Bust"]

\* Option<u8>: None is the empty sequence, Some(v) the one-element sequence.
None == <<>>
Some(v) == <<v>>

\* Value::value
ValueOf(val) ==
    CASE val.tag = "Blackjack" -> Some(21)
      [] val.tag \in {"Soft", "Hard"} -> Some(val.v)
      [] val.tag = "Bust" -> None

\* Hand::default
DefaultHand == [cards |-> <<>>, num_aces |-> 0, val |-> Hard(0)]

\* InsertHard without its bust test: a total over 21 is kept as a hard value.
InsertHard_NoBust(h, card, v) ==
    LET cv == values(card)
        possible_vals == [i \in 1..Len(cv) |-> cv[i] + v]
    IN  IF Len(h.cards) = 1 /\ v = 10 /\ is_ace(card) THEN Blackjack
        ELSE IF Len(possible_vals) = 1 THEN Hard(possible_vals[1])
        ELSE IF \E i \in 1..Len(possible_vals) : possible_vals[i] > 21
             THEN Hard(SeqMin(possible_vals))
        ELSE Soft(SeqMax(possible_vals), 0)

\* InsertHard with the blackjack test made on any hand, not only on a hand
\* of one card.
InsertHard_AnyLen(h, card, v) ==
    LET cv == values(card)
        possible_vals == [i \in 1..Len(cv) |-> cv[i] + v]
    IN  IF v = 10 /\ is_ace(card) THEN Blackjack
        ELSE IF \A i \in 1..Len(possible_vals) : possible_vals[i] > 21 THEN Bust
        ELSE IF Len(possible_vals) = 1 THEN Hard(possible_vals[1])
        ELSE IF \E i \in 1..Len(possible_vals) : possible_vals[i] > 21
             THEN Hard(SeqMin(possible_vals))
        ELSE Soft(SeqMax(possible_vals), 0)

\* InsertHard recording one forced ace in the soft hand it builds.
InsertHard_ForcedAce(h, card, v) ==
    LET cv == values(card)
        possible_vals == [i \in 1..Len(cv) |-> cv[i] + v]
    IN  IF Len(h.cards) = 1 /\ v = 10 /\ is_ace(card) THEN Blackjack
        ELSE IF \A i \in 1..Len(possible_vals) : possible_vals[i] > 21 THEN Bust
        ELSE IF Len(possible_vals) = 1 THEN Hard(possible_vals[1])
        ELSE IF \E i \in 1..Len(possible_vals) : possible_vals[i] > 21
             THEN Hard(SeqMin(possible_vals))
        ELSE Soft(SeqMax(possible_vals), 1)

\* InsertHard building the soft hand on the least of the totals.
InsertHard_SoftOfMin(h, card, v) ==
    LET cv == values(card)
        possible_vals == [i \in 1..Len(cv) |-> cv[i] + v]
    IN  IF Len(h.cards) = 1 /\ v = 10 /\ is_ace(card) THEN Blackjack
        ELSE IF \A i \in 1..Len(possible_vals) : possible_vals[i] > 21 THEN Bust
        ELSE IF Len(possible_vals) = 1 THEN Hard(possible_vals[1])
        ELSE IF \E i \in 1..Len(possible_vals) : possible_vals[i] > 21
             THEN Hard(SeqMin(possible_vals))
        ELSE Soft(SeqMin(possible_vals), 0)

\* Hand::insert, the Value::Hard(v) arm.
InsertHard(h, card, v) ==
    LET cv == values(card)
        possible_vals == [i \in 1..Len(cv) |-> cv[i] + v]
    IN  IF \E i \in 1..Len(cv) : cv[i] + v > 255 THEN Panicked(AddOverflow)
        ELSE IF Len(h.cards) = 1 /\ v = 10 /\ is_ace(card) THEN Blackjack
        ELSE IF \A i \in 1..Len(possible_vals) : possible_vals[i] > 21 THEN Bust
        ELSE IF Len(possible_vals) = 1 THEN Hard(possible_vals[1])
        ELSE IF \E i \in 1..Len(possible_vals) : possible_vals[i] > 21
             THEN Hard(SeqMin(possible_vals))
        ELSE Soft(SeqMax(possible_vals), 0)

\* InsertSoft taking the least of the totals within 21, not the greatest.
InsertSoft_Least(h, card, v, a) ==
    LET deductions == h.num_aces - a
        m == deductions + 1
        other_vals == [i \in 1..m |->
                         <<v - (i - 1) * 10, a + (i - 1)>>]
        rv == Reverse(values(card))
        all_vals == [k \in 1..(Len(rv) * m) |->
                       LET o == (k - 1) \div m
                           j == ((k - 1) % m) + 1
                       IN  <<rv[o + 1] + other_vals[j][1],
                             other_vals[j][2] + o>>]
        ok == {k \in 1..Len(all_vals) : all_vals[k][1] <= 21}
        kept == SelectSeq(all_vals, LAMBDA p : p[1] <= 21)
    IN  IF Len(h.cards) = 1 /\ v = 11 /\ values(card)[1] = 10 THEN Blackjack
        ELSE IF ok = {} THEN Bust
        ELSE IF Cardinality(ok) = 1 THEN Hard(PairMin(all_vals)[1])
        ELSE LET val == PairMin(kept) IN Soft(val[1], val[2])

\* InsertSoft without its blackjack test.
InsertSoft_NoBlackjack(h, card, v, a) ==
    LET deductions == h.num_aces - a
        m == deductions + 1
        other_vals == [i \in 1..m |->
                         <<v - (i - 1) * 10, a + (i - 1)>>]
        rv == Reverse(values(card))
        all_vals == [k \in 1..(Len(rv) * m) |->
                       LET o == (k - 1) \div m
                           j == ((k - 1) % m) + 1
                       IN  <<rv[o + 1] + other_vals[j][1],
                             other_vals[j][2] + o>>]
        ok == {k \in 1..Len(all_vals) : all_vals[k][1] <= 21}
        kept == SelectSeq(all_vals, LAMBDA p : p[1] <= 21)
    IN  IF ok = {} THEN Bust
        ELSE IF Cardinality(ok) = 1 THEN Hard(PairMin(all_vals)[1])
        ELSE LET val == PairMax(kept) IN Soft(val[1], val[2])

\* InsertSoft keeping the forced ace count it found: neither a deduction
\* nor a new ace counted as 1 is added to it.
InsertSoft_CountKept(h, card, v, a) ==
    LET deductions == h.num_aces - a
        m == deductions + 1
        other_vals == [i \in 1..m |-> <<v - (i - 1) * 10, a>>]
        rv == Reverse(values(card))
        all_vals == [k \in 1..(Len(rv) * m) |->
                       LET o == (k - 1) \div m
                           j == ((k - 1) % m) + 1
                       IN  <<rv[o + 1] + other_vals[j][1], other_vals[j][2]>>]
        ok == {k \in 1..Len(all_vals) : all_vals[k][1] <= 21}
        kept == SelectSeq(all_vals, LAMBDA p : p[1] <= 21)
    IN  IF Len(h.cards) = 1 /\ v = 11 /\ values(card)[1] = 10 THEN Blackjack
        ELSE IF ok = {} THEN Bust
        ELSE IF Cardinality(ok) = 1 THEN Hard(PairMin(all_vals)[1])
        ELSE LET val == PairMax(kept) IN Soft(val[1], val[2])

\* InsertSoft without the deductions: no ace counted as 11 is taken down
\* to 1.
InsertSoft_NoDeduction(h, card, v, a) ==
    LET m == 1
        other_vals == [i \in 1..m |->
                         <<v - (i - 1) * 10, a + (i - 1)>>]
        rv == Reverse(values(card))
        all_vals == [k \in 1..(Len(rv) * m) |->
                       LET o == (k - 1) \div m
                           j == ((k - 1) % m) + 1
                       IN  <<rv[o + 1] + other_vals[j][1],
                             other_vals[j][2] + o>>]
        ok == {k \in 1..Len(all_vals) : all_vals[k][1] <= 21}
        kept == SelectSeq(all_vals, LAMBDA p : p[1] <= 21)
    IN  IF Len(h.cards) = 1 /\ v = 11 /\ values(card)[1] = 10 THEN Blackjack
        ELSE IF ok = {} THEN Bust
        ELSE IF Cardinality(ok) = 1 THEN Hard(PairMin(all_vals)[1])
        ELSE LET val == PairMax(kept) IN Soft(val[1], val[2])

\* The panic of the arithmetic of the Value::Soft(v, a) arm, "" when it
\* has none: deductions, then the candidates (v - i * 10, a + i) in the
\* order of i, then the sums of the two loops.
InsertSoftPanic(h, card, v, a) ==
    LET deductions == h.num_aces - a
        bad == {i \in 0..deductions : i * 10 > 255 \/ v < i * 10 \/ a + i > 255}
        first == CHOOSE i \in bad : \A j \in bad : i <= j
        rv == Reverse(values(card))
    IN  IF h.num_aces < a THEN SubOverflow
        ELSE IF deductions + 1 > 255 THEN AddOverflow
        ELSE IF bad # {}
             THEN IF first * 10 > 255 THEN MulOverflow
                  ELSE IF v < first * 10 THEN SubOverflow
                  ELSE AddOverflow
        ELSE IF \E o \in 0..(Len(rv) - 1), i \in 0..deductions :
                    rv[o + 1] + (v - i * 10) > 255 \/ (a + i) + o > 255
             THEN AddOverflow
        ELSE ""

\* Hand::insert, the Value::Soft(v, a) arm.
InsertSoft(h, card, v, a) ==
    LET deductions == h.num_aces - a
        m == deductions + 1
        other_vals == [i \in 1..m |->
                         <<v - (i - 1) * 10, a + (i - 1)>>]
        rv == Reverse(values(card))
        all_vals == [k \in 1..(Len(rv) * m) |->
                       LET o == (k - 1) \div m
                           j == ((k - 1) % m) + 1
                       IN  <<rv[o + 1] + other_vals[j][1],
                             other_vals[j][2] + o>>]
        ok == {k \in 1..Len(all_vals) : all_vals[k][1] <= 21}
        kept == SelectSeq(all_vals, LAMBDA p : p[1] <= 21)
    IN  IF InsertSoftPanic(h, card, v, a) # ""
        THEN Panicked(InsertSoftPanic(h, card, v, a))
        ELSE IF Len(h.cards) = 1 /\ v = 11 /\ values(card)[1] = 10 THEN Blackjack
        ELSE IF ok = {} THEN Bust
        ELSE IF Cardinality(ok) = 1 THEN Hard(PairMin(all_vals)[1])
        ELSE LET val == PairMax(kept) IN Soft(val[1], val[2])

\* The Blackjack arm leaving the blackjack in place.
InsertBlackjack_Stays(card) == Blackjack

\* Hand::insert, the Value::Blackjack arm.
InsertBlackjack(card) ==
    LET cv == values(card)
        other_vals == <<11, 21>>
        all_vals == [k \in 1..(Len(cv) * 2) |->
                       cv[((k - 1) \div 2) + 1] + other_vals[((k - 1) % 2) + 1]]
    IN  IF \A k \in 1..Len(all_vals) : all_vals[k] > 21 THEN Bust
        ELSE Hard(SeqMin(all_vals))

\* Hand::value
value(h) == ValueOf(h.val)

\* The sum verify takes: the first value of every card.
RECURSIVE LowSum(_)
LowSum(cs) == IF cs = <<>> THEN 0 ELSE values(cs[1])[1] + LowSum(Tail(cs))

\* The panic of the arithmetic of Hand::verify, "" when it has none: the
\* u8 sum of the cards and 10 * (num_aces - a) are taken for a Soft hand
\* that passed the tests before them.
VerifyPanic(h) ==
    IF /\ h.val.tag = "Soft"
       /\ h.val.v <= 21
       /\ h.val.a < h.num_aces
    THEN IF LowSum(h.cards) > 255 THEN AddOverflow
         ELSE IF 10 * (h.num_aces - h.val.a) > 255 THEN MulOverflow
         ELSE IF LowSum(h.cards) + 10 * (h.num_aces - h.val.a) > 255
              THEN AddOverflow
         ELSE ""
    ELSE ""

\* Hand::verify
verify(h) ==
    /\ ~(h.val = Blackjack /\ Len(h.cards) # 2)
    /\ ~(value(h) # None /\ value(h)[1] > 21)
    /\ ~(h.val.tag = "Soft" /\ h.val.a >= h.num_aces)
    /\ ~(h.val.tag = "Soft" /\
         h.val.v # LowSum(h.cards) + 10 * (h.num_aces - h.val.a))

\* The panic of debug_assert!(self.verify()).
VerifyFailed == "assertion failed: self.verify()"

\* insert valuing the card put on a busted hand as the first card of a hand.
insert_BustRestarts(h, card) ==
    IF h.cards = <<>>
    THEN [hand |-> [cards |-> <<card>>,
                    num_aces |-> IF is_ace(card) THEN h.num_aces + 1
                                 ELSE h.num_aces,
                    val |-> IF is_ace(card) THEN Soft(11, 0)
                            ELSE Hard(values(card)[1])],
          panic |-> ""]
    ELSE CHOOSE r \in {[hand |-> [cards |-> Append(h.cards, card),
                                  num_aces |-> IF is_ace(card)
                                               THEN h.num_aces + 1
                                               ELSE h.num_aces,
                                  val |-> val],
                        panic |-> ""] :
                         val \in {CASE h.val.tag = "Bust" -> Hard(values(card)[1])
                                    [] h.val.tag = "Hard" ->
                                           InsertHard(h, card, h.val.v)
                                    [] h.val.tag = "Soft" ->
                                           InsertSoft(h, card, h.val.v, h.val.a)
                                    [] h.val.tag = "Blackjack" ->
                                           InsertBlackjack(card)}} : TRUE

\* The end of Hand::insert, the card in the hand h1: the debug_assert of
\* verify.
InsertAsserted(h1) ==
    IF VerifyPanic(h1) # "" THEN [hand |-> h1, panic |-> VerifyPanic(h1)]
    ELSE IF ~verify(h1) THEN [hand |-> h1, panic |-> VerifyFailed]
    ELSE [hand |-> h1, panic |-> ""]

\* Hand::insert from the value val its match gave: the assignment of val,
\* the count of the ace, the push of the card and the debug_assert.
InsertValued(h, card, val) ==
    IF IsPanicked(val) THEN [hand |-> h, panic |-> val.panic]
    ELSE IF is_ace(card) /\ h.num_aces + 1 > 255
         THEN [hand |-> [h EXCEPT !.val = val], panic |-> AddOverflow]
    ELSE CHOOSE r \in {InsertAsserted(h1) :
                         h1 \in {[cards |-> Append(h.cards, card),
                                  num_aces |-> IF is_ace(card)
                                               THEN h.num_aces + 1
                                               ELSE h.num_aces,
                                  val |-> val]}} : TRUE

\* Hand::insert: the hand the call leaves and the panic it ends in, "" when
\* it returns. An overflow leaves the hand as the statements before it made
\* it; the closing debug_assert finds the card already in the hand. (val and
\* h1 are bound to their values, each evaluated once.)
insert(h, card) ==
    IF h.cards = <<>>
    THEN IF is_ace(card) /\ h.num_aces + 1 > 255
         THEN [hand |-> h, panic |-> AddOverflow]
         ELSE [hand |-> [cards |-> <<card>>,
                         num_aces |-> IF is_ace(card) THEN h.num_aces + 1
                                      ELSE h.num_aces,
                         val |-> IF is_ace(card) THEN Soft(11, 0)
                                 ELSE Hard(values(card)[1])],
               panic |-> ""]
    ELSE CHOOSE r \in {InsertValued(h, card, val) :
                         val \in {CASE h.val.tag = "Bust" -> Bust
                                    [] h.val.tag = "Hard" ->
                                           InsertHard(h, card, h.val.v)
                                    [] h.val.tag = "Soft" ->
                                           InsertSoft(h, card, h.val.v, h.val.a)
                                    [] h.val.tag = "Blackjack" ->
                                           InsertBlackjack(card)}} : TRUE

\* Hand::busted
busted(h) == h.val = Bust

\* Hand::blackjack
blackjack(h) == h.val = Blackjack

\* Hand::is_empty
is_empty(h) == h.cards = <<>>

\* is_soft true of the Soft variant alone.
is_soft_SoftOnly(h) == h.val.tag = "Soft"

\* Hand::is_soft
is_soft(h) == h.val.tag \in {"Soft", "Blackjack"}

\* ------------------------------------------------------------- the shoe

\* Card::count: the high-low weight of a card.
count(card) ==
    CASE card.rank \in {"Two", "Three", "Four", "Five", "Six"} -> 1
      [] card.rank \in {"Seven", "Eight", "Nine"} -> 0
      [] card.rank \in {"Ten", "Jack", "Queen", "King", "Ace"} -> -1

\* The cards of a single deck, whatever the number of decks asked for.
FreshCards_SingleDeck(decks) ==
    IF decks = 0 THEN EmptyBag
    ELSE [card \in {Card(r) : r \in RankSet} |-> Len(Suits)]

\* The cards Shoe::new pushes: for every suit and every rank, decks copies
\* of the card. The shoe of the model holds its cards as a bag: Shoe::new
\* ends with Shoe::shuffle, which leaves the cards in any order, and the
\* order is read by Shoe::deal alone (and by the Index of a shoe, which
\* nothing in the library calls), one card at a time from the end. So the
\* outcome of the shuffle is drawn when it is read: a deal takes any of the
\* cards left (Tops below), and every order of the cards is a run.
FreshCards(decks) ==
    IF decks = 0 THEN EmptyBag
    ELSE [card \in {Card(r) : r \in RankSet} |-> Len(Suits) * decks]

\* HiLoCounter::new
CounterNew(num_decks) == [running_count |-> 0, num_decks |-> num_decks]

\* HiLoCounter::insert
CounterInsert(counter, card) ==
    [counter EXCEPT !.running_count = @ + count(card)]

\* Shoe::new (with the Shoe::shuffle that ends it)
ShoeNew(decks) ==
    [cards |-> FreshCards(decks),
     counter |-> CounterNew(decks),
     decks |-> decks]

\* Shoe::len
ShoeLen(shoe) == BagCardinality(shoe.cards)

\* What self.cards.pop() can return in Shoe::deal: None from no cards,
\* else Some of any card among them, as the shuffle has left it at the end.
Tops(cards) ==
    IF cards = EmptyBag THEN {None} ELSE {Some(card) : card \in BagToSet(cards)}

\* What n calls of self.cards.pop() in a row can return, in order.
RECURSIVE Pops(_, _)
Pops(cards, n) ==
    IF n = 0 THEN {<<>>}
    ELSE UNION {{<<top>> \o rest :
                    rest \in Pops(IF top = None THEN cards
                                  ELSE cards (-) SetToBag({top[1]}), n - 1)} :
                  top \in Tops(cards)}

\* Shoe::deal leaving the counter as it was.
ShoeDeal_NoCount(shoe, top) ==
    IF top = None
    THEN [shoe |-> shoe, card |-> None]
    ELSE [shoe |-> [shoe EXCEPT !.cards = @ (-) SetToBag({top[1]})],
          card |-> top]

\* Shoe::deal returning the top card and leaving it in the shoe.
ShoeDeal_NoPop(shoe, top) ==
    IF top = None
    THEN [shoe |-> shoe, card |-> None]
    ELSE [shoe |-> [shoe EXCEPT !.counter = CounterInsert(@, top[1])],
          card |-> top]

\* Shoe::deal, top being what self.cards.pop() returns: the shoe after the
\* call and the Option<Card> it returns.
ShoeDeal(shoe, top) ==
    IF top = None
    THEN [shoe |-> shoe, card |-> None]
    ELSE [shoe |-> [shoe EXCEPT !.cards = @ (-) SetToBag({top[1]}),
                                !.counter = CounterInsert(@, top[1])],
          card |-> top]

\* An f32 is kept as the fraction num/den it stands for exactly, den a
\* power of two (2^30 at most here); NaN is 0/0.
F32One == 16777216
NaN == [num |-> 0, den |-> 0]

\* n / d rounded to the nearest integer, a tie going to the even one.
RoundHalfEven(n, d) ==
    LET f == n \div d
        r == n % d
    IN  IF 2 * r > d \/ (2 * r = d /\ f % 2 = 1) THEN f + 1 ELSE f

\* (len as f32) / (cards as f32) for 0 < len < cards, as the f32 division
\* rounds it: the quotient is m * 2^(-k - 23), m its mantissa of 24 bits
\* (2^24 when the rounding carries) and 2^(-k) the power of two at or
\* below it.
F32Quotient(len, cards) ==
    LET k == CHOOSE i \in 1..12 : len * 2^i >= cards /\ len * 2^(i - 1) < cards
        hi == (len * 2^k) * 4096
        lo == (hi % cards) * 2048
    IN  [k |-> k,
         m |-> (hi \div cards) * 2048 + RoundHalfEven(lo, cards)]

\* 1.0 - q as the f32 subtraction rounds it, in units of 2^(-24): exact
\* for a q of 1/2 or more, rounded to the 24 bits of a result above 1/2
\* otherwise.
F32OneMinus(q) ==
    IF q.k = 1 THEN F32One - q.m
    ELSE F32One - RoundHalfEven(q.m, 2^(q.k - 1))

\* Shoe::penetration: 1.0 - (len as f32) / ((decks * 52) as f32), computed
\* in f32 as the code computes it. Of a shoe of no deck it is NaN (0/0).
penetration(shoe) ==
    LET len == ShoeLen(shoe)
        cards == shoe.decks * 52
    IN  IF cards = 0 THEN NaN
        ELSE IF len = 0 THEN [num |-> F32One, den |-> F32One]
        ELSE IF len = cards THEN [num |-> 0, den |-> F32One]
        ELSE [num |-> F32OneMinus(F32Quotient(len, cards)), den |-> F32One]

\* x > y for f32 values between 0 and 1; false when either is NaN, as
\* every comparison of NaN is.
FracGreater(x, y) ==
    IF x.den = 0 \/ y.den = 0 THEN FALSE
    ELSE IF x.den >= y.den THEN x.num > y.num * (x.den \div y.den)
    ELSE x.num * (y.den \div x.den) > y.num

\* The running count over the decks' worth of cards left in the shoe.
running_count_DecksLeft(shoe) ==
    [num |-> shoe.counter.running_count * 52, den |-> ShoeLen(shoe) + 1]

\* HiLoCounter::count, which Shoe::running_count returns: the running count
\* over the number of decks, as a fraction.
running_count(shoe) ==
    [num |-> shoe.counter.running_count, den |-> shoe.counter.num_decks]

\* ------------------------------------------------------------- the bets

Chips == {"One", "Five", "TwentyFive", "Hundred"}

\* Chip::value
ChipValue(chip) ==
    CASE chip = "One" -> 1
      [] chip = "Five" -> 5
      [] chip = "TwentyFive" -> 25
      [] chip = "Hundred" -> 100

\* The panic of a checked subtraction of usize values that underflows
\* (overflow checks are on, as in the build that runs the tests).
\* Bet::default: no entry in chips, no units.
DefaultBet == [chips |-> [c \in {} |-> 0], units |-> 0]

\* impl From<Chip> for Bet
BetFrom(chip) == [chips |-> [c \in {chip} |-> 1], units |-> ChipValue(chip)]

\* impl From<Bet> for usize
BetUnits(bet) == bet.units

\* chips.entry(chip).or_insert(0), read
Entry(chips, chip) == IF chip \in DOMAIN chips THEN chips[chip] ELSE 0

\* impl Add for Bet
BetAdd(a, b) ==
    [chips |-> [c \in DOMAIN a.chips \cup DOMAIN b.chips |->
                   IF c \in DOMAIN b.chips
                   THEN Entry(a.chips, c) + b.chips[c]
                   ELSE a.chips[c]],
     units |-> a.units + b.units]

\* Subtraction that tests the units alone and takes away the chips it finds.
BetSub_UnitsOnly(a, b) ==
    IF a.units < b.units
    THEN [bet |-> a, panic |-> SubOverflow]
    ELSE [bet |-> [chips |-> [c \in DOMAIN a.chips \cup DOMAIN b.chips |->
                                 IF c \in DOMAIN b.chips
                                     /\ Entry(a.chips, c) >= b.chips[c]
                                 THEN Entry(a.chips, c) - b.chips[c]
                                 ELSE Entry(a.chips, c)],
                   units |-> a.units - b.units],
          panic |-> ""]

\* impl Sub for Bet: the bet returned, or the panic of the subtraction of a
\* count or of the units that underflowed.
BetSub(a, b) ==
    IF \/ \E c \in DOMAIN b.chips : Entry(a.chips, c) < b.chips[c]
       \/ a.units < b.units
    THEN [bet |-> a, panic |-> SubOverflow]
    ELSE [bet |-> [chips |-> [c \in DOMAIN a.chips \cup DOMAIN b.chips |->
                                 IF c \in DOMAIN b.chips
                                 THEN Entry(a.chips, c) - b.chips[c]
                                 ELSE a.chips[c]],
                   units |-> a.units - b.units],
          panic |-> ""]

\* Multiplication scaling the units and leaving the chips as they were.
BetMul_UnitsOnly(a, rhs) == [chips |-> a.chips, units |-> a.units * rhs]

\* impl Mul<usize> for Bet
BetMul(a, rhs) ==
    [chips |-> [c \in DOMAIN a.chips |-> a.chips[c] * rhs],
     units |-> a.units * rhs]

\* ------------------------------------------------------------ the table

\* The panic of Option::unwrap on the None that Shoe::deal returned.
UnwrapNone == "called Option::unwrap() on a None value"

\* The panics of the calls made in the wrong state.
ResetPanic == "Cannot reset table while cards are dealt"
ClearHandsPanic == "Cannot clear hands before dealer has flipped"
DealPanic == "Cannot deal when hands are currently on the table"
PeekPanic == "Cannot peek when no cards are dealt"
PlayerHitPanic == "Cannot hit when no cards are dealt"
DealerHitPanic == "Cannot hit dealer when no cards are dealt"
FlipHolePanic == "Cannot flip hole card when no cards are dealt"

\* What a call that took no card from the shoe leaves behind: the table,
\* the value returned, the panic message ("" when the call returns), and
\* dealt, the cards that Shoe::deal returned to the call, in order.
Result(t, r, p) == [table |-> t, ret |-> r, panic |-> p, dealt |-> <<>>]

\* What a call leaves behind that Shoe::deal returned the cards cs to.
Dealing(t, r, p, cs) == [table |-> t, ret |-> r, panic |-> p, dealt |-> cs]

Returned(op, val) == [op |-> op, val |-> val]
ReturnedFor(op, player, val) == [op |-> op, player |-> player, val |-> val]
NoReturn == [op |-> "none"]

\* f32::clamp(0.0, 1.0) of a fraction.
Clamp01(x) ==
    IF x.num < 0 THEN [num |-> 0, den |-> 1]
    ELSE IF x.num > x.den THEN [num |-> 1, den |-> 1]
    ELSE x

\* Table::new
TableNew(num_decks, num_spots, max_penetration) ==
    [dealer |-> DefaultHand,
     player_hands |-> [i \in 1..num_spots |-> DefaultHand],
     shoe |-> ShoeNew(num_decks),
     max_penetration |-> Clamp01(max_penetration),
     num_decks |-> num_decks,
     state |-> "Open"]

\* Table::reset
reset(t) ==
    IF t.state # "Open"
    THEN Result(t, NoReturn, ResetPanic)
    ELSE Result([t EXCEPT !.shoe = ShoeNew(t.num_decks),
                          !.dealer = DefaultHand,
                          !.player_hands = [i \in DOMAIN @ |-> DefaultHand]],
                Returned("reset", <<>>), "")

\* clear_hands refusing the Open state alone.
clear_hands_FromDealt(t) ==
    IF t.state = "Open"
    THEN Result(t, NoReturn, ClearHandsPanic)
    ELSE Result([t EXCEPT !.dealer = DefaultHand,
                          !.player_hands = [i \in DOMAIN @ |-> DefaultHand],
                          !.state = "Open"],
                Returned("clear_hands", <<>>), "")

\* clear_hands starting the count of the shoe afresh.
clear_hands_ClearsCount(t) ==
    IF t.state # "Flipped"
    THEN Result(t, NoReturn, ClearHandsPanic)
    ELSE Result([t EXCEPT !.dealer = DefaultHand,
                          !.player_hands = [i \in DOMAIN @ |-> DefaultHand],
                          !.shoe.counter.running_count = 0,
                          !.state = "Open"],
                Returned("clear_hands", <<>>), "")

\* clear_hands emptying the dealer's hand alone.
clear_hands_KeepsPlayers(t) ==
    IF t.state # "Flipped"
    THEN Result(t, NoReturn, ClearHandsPanic)
    ELSE Result([t EXCEPT !.dealer = DefaultHand, !.state = "Open"],
                Returned("clear_hands", <<>>), "")

\* Table::clear_hands
clear_hands(t) ==
    IF t.state # "Flipped"
    THEN Result(t, NoReturn, ClearHandsPanic)
    ELSE Result([t EXCEPT !.dealer = DefaultHand,
                          !.player_hands = [i \in DOMAIN @ |-> DefaultHand],
                          !.state = "Open"],
                Returned("clear_hands", <<>>), "")

\* An insert of the loops of Table::deal done: the shoe without the card
\* dealt, the hand (of player who, or the dealer's) as the insert r left
\* it, and the panic of the insert.
HandDealt(t, to_player, who, shoe1, r) ==
    [table |-> IF to_player
               THEN [t EXCEPT !.shoe = shoe1, !.player_hands[who] = r.hand]
               ELSE [t EXCEPT !.shoe = shoe1, !.dealer = r.hand],
     panic |-> r.panic]

\* The cards of the first n of the pops tops.
Cards(tops, n) == [i \in 1..n |-> tops[i][1]]

\* The loops of deal serving the dealer before the players.
RECURSIVE DealCards_DealerFirst(_, _, _)
DealCards_DealerFirst(t, k, tops) ==
    LET spots == Len(t.player_hands)
        who == (k - 1) % (spots + 1)
        d == ShoeDeal(t.shoe, tops[k])
    IN  IF k > 2 * (spots + 1)
        THEN [table |-> t, panic |-> "", dealt |-> Cards(tops, k - 1)]
        ELSE IF d.card = None
        THEN [table |-> t, panic |-> UnwrapNone, dealt |-> Cards(tops, k - 1)]
        ELSE CHOOSE rest \in
                 {IF s.panic # ""
                  THEN [table |-> s.table, panic |-> s.panic,
                        dealt |-> Cards(tops, k)]
                  ELSE DealCards_DealerFirst(s.table, k + 1, tops) :
                    s \in {HandDealt(t, who >= 1, who,
                                     d.shoe,
                                     insert(IF who >= 1 THEN t.player_hands[who]
                                            ELSE t.dealer,
                                            d.card[1]))}} : TRUE

\* The loops of Table::deal from their k-th insert on, tops[i] being what
\* the pop of the i-th Shoe::deal returns: the inserts go to the players in
\* order and then to the dealer, twice over. panic is the panic the loops
\* end in: the unwrap of the None that Shoe::deal returned, or the panic of
\* an insert; dealt are the cards that Shoe::deal returned. (s is what the
\* k-th insert left, evaluated once.)
RECURSIVE DealCards(_, _, _)
DealCards(t, k, tops) ==
    LET spots == Len(t.player_hands)
        who == ((k - 1) % (spots + 1)) + 1
        d == ShoeDeal(t.shoe, tops[k])
    IN  IF k > 2 * (spots + 1)
        THEN [table |-> t, panic |-> "", dealt |-> Cards(tops, k - 1)]
        ELSE IF d.card = None
        THEN [table |-> t, panic |-> UnwrapNone, dealt |-> Cards(tops, k - 1)]
        ELSE CHOOSE rest \in
                 {IF s.panic # ""
                  THEN [table |-> s.table, panic |-> s.panic,
                        dealt |-> Cards(tops, k)]
                  ELSE DealCards(s.table, k + 1, tops) :
                    s \in {HandDealt(t, who <= spots, who,
                                     d.shoe,
                                     insert(IF who <= spots THEN t.player_hands[who]
                                            ELSE t.dealer,
                                            d.card[1]))}} : TRUE

\* deal setting the phase before it tests it.
deal_TestsLate(t, tops) ==
    IF t.state # "Open"
    THEN Result([t EXCEPT !.state = "Dealt"], NoReturn, DealPanic)
    ELSE IF \E i \in DOMAIN t.player_hands : ~is_empty(t.player_hands[i])
    THEN Result(t, NoReturn, "assertion failed: player.is_empty()")
    ELSE LET reshuffle == FracGreater(penetration(t.shoe), t.max_penetration)
             t1 == IF reshuffle THEN [t EXCEPT !.shoe = ShoeNew(t.num_decks)]
                   ELSE t
             t2 == [t1 EXCEPT !.state = "Dealt"]
             d == DealCards(t2, 1, tops)
         IN  IF d.panic # ""
             THEN Dealing(d.table, NoReturn, d.panic, d.dealt)
             ELSE Dealing(d.table, Returned("deal", reshuffle), "", d.dealt)

\* deal replacing the shoe as soon as the penetration reaches the maximum.
deal_ReshuffleAtThreshold(t, tops) ==
    IF t.state # "Open"
    THEN Result(t, NoReturn, DealPanic)
    ELSE IF \E i \in DOMAIN t.player_hands : ~is_empty(t.player_hands[i])
    THEN Result(t, NoReturn, "assertion failed: player.is_empty()")
    ELSE LET reshuffle == ~FracGreater(t.max_penetration, penetration(t.shoe))
             t1 == IF reshuffle THEN [t EXCEPT !.shoe = ShoeNew(t.num_decks)]
                   ELSE t
             t2 == [t1 EXCEPT !.state = "Dealt"]
             d == DealCards(t2, 1, tops)
         IN  IF d.panic # ""
             THEN Dealing(d.table, NoReturn, d.panic, d.dealt)
             ELSE Dealing(d.table, Returned("deal", reshuffle), "", d.dealt)

\* Table::deal, tops[i] being what the pop of its i-th Shoe::deal returns.
deal(t, tops) ==
    IF t.state # "Open"
    THEN Result(t, NoReturn, DealPanic)
    ELSE IF \E i \in DOMAIN t.player_hands : ~is_empty(t.player_hands[i])
    THEN Result(t, NoReturn, "assertion failed: player.is_empty()")
    ELSE LET reshuffle == FracGreater(penetration(t.shoe), t.max_penetration)
             t1 == IF reshuffle THEN [t EXCEPT !.shoe = ShoeNew(t.num_decks)]
                   ELSE t
             t2 == [t1 EXCEPT !.state = "Dealt"]
             d == DealCards(t2, 1, tops)
         IN  IF d.panic # ""
             THEN Dealing(d.table, NoReturn, d.panic, d.dealt)
             ELSE Dealing(d.table, Returned("deal", reshuffle), "", d.dealt)

\* The cards that the Shoe::deal calls of Table::deal on t pop from: those
\* of the shoe of t, or of the fresh shoe that replaces it.
DealSource(t) ==
    IF FracGreater(penetration(t.shoe), t.max_penetration)
    THEN FreshCards(t.num_decks)
    ELSE t.shoe.cards

\* What the pops of a call of Table::deal on t can return, in order: none
\* is made by a call in the wrong state.
DealTops(t) ==
    IF t.state # "Open" THEN {<<>>}
    ELSE Pops(DealSource(t), 2 * (Len(t.player_hands) + 1))

\* peek reporting the dealer's blackjack without flipping the hole card.
peek_NoFlip(t) ==
    IF t.state # "Dealt"
    THEN Result(t, NoReturn, PeekPanic)
    ELSE IF blackjack(t.dealer)
    THEN Result(t, Returned("peek", TRUE), "")
    ELSE Result(t, Returned("peek", FALSE), "")

\* Table::peek
peek(t) ==
    IF t.state # "Dealt"
    THEN Result(t, NoReturn, PeekPanic)
    ELSE IF blackjack(t.dealer)
    THEN Result([t EXCEPT !.state = "Flipped"], Returned("peek", TRUE), "")
    ELSE Result(t, Returned("peek", FALSE), "")

\* Table::player_hand (spots are numbered from 1 here, from 0 in the code)
player_hand(t, player) == t.player_hands[player]

\* get_outcome looking at the dealer's bust before the player's.
get_outcome_DealerBustFirst(t, player) ==
    IF blackjack(t.dealer)
    THEN (IF blackjack(player_hand(t, player)) THEN "Push" ELSE "Lose")
    ELSE IF blackjack(player_hand(t, player)) THEN "Blackjack"
    ELSE IF busted(t.dealer) THEN "Win"
    ELSE IF busted(player_hand(t, player)) THEN "Lose"
    ELSE LET p == value(player_hand(t, player))[1]
             d == value(t.dealer)[1]
         IN  IF p > d THEN "Win"
             ELSE IF p < d THEN "Lose"
             ELSE "Push"

\* Table::get_outcome: the Outcome it returns.
get_outcome(t, player) ==
    IF blackjack(t.dealer)
    THEN (IF blackjack(player_hand(t, player)) THEN "Push" ELSE "Lose")
    ELSE IF blackjack(player_hand(t, player)) THEN "Blackjack"
    ELSE IF busted(player_hand(t, player)) THEN "Lose"
    ELSE IF busted(t.dealer) THEN "Win"
    ELSE LET p == value(player_hand(t, player))[1]
             d == value(t.dealer)[1]
         IN  IF p > d THEN "Win"
             ELSE IF p < d THEN "Lose"
             ELSE "Push"

\* The end of Table::player_hit, the card taken from the shoe and the
\* insert r done: the hand as the insert left it, and the return value, or
\* the panic of the insert.
PlayerHitInserted(t, player, d, r) ==
    LET t1 == [t EXCEPT !.shoe = d.shoe, !.player_hands[player] = r.hand]
    IN  IF r.panic # "" THEN Dealing(t1, NoReturn, r.panic, <<d.card[1]>>)
        ELSE Dealing(t1, ReturnedFor("player_hit", player,
                                     busted(player_hand(t1, player))), "",
                     <<d.card[1]>>)

\* The end of Table::dealer_hit, the card taken from the shoe and the insert
\* r done: the state becomes state1 unless the insert panicked.
DealerHitInserted(t, d, r, state1) ==
    LET t1 == [t EXCEPT !.shoe = d.shoe, !.dealer = r.hand]
        t2 == [t1 EXCEPT !.state = state1]
    IN  IF r.panic # "" THEN Dealing(t1, NoReturn, r.panic, <<d.card[1]>>)
        ELSE Dealing(t2, Returned("dealer_hit", busted(t2.dealer)), "",
                     <<d.card[1]>>)

\* player_hit refusing the Open state alone.
player_hit_NotOpen(t, player, top) ==
    IF t.state = "Open"
    THEN Result(t, NoReturn, PlayerHitPanic)
    ELSE IF busted(player_hand(t, player))
    THEN Result(t, ReturnedFor("player_hit", player, TRUE), "")
    ELSE LET d == ShoeDeal(t.shoe, top)
         IN  IF d.card = None
             THEN Result(t, NoReturn, UnwrapNone)
             ELSE PlayerHitInserted(t, player, d,
                                    insert(player_hand(t, player), d.card[1]))

\* player_hit drawing for a busted hand too.
player_hit_HitsBusted(t, player, top) ==
    IF t.state # "Dealt"
    THEN Result(t, NoReturn, PlayerHitPanic)
    ELSE LET d == ShoeDeal(t.shoe, top)
         IN  IF d.card = None
             THEN Result(t, NoReturn, UnwrapNone)
             ELSE PlayerHitInserted(t, player, d,
                                    insert(player_hand(t, player), d.card[1]))

\* Table::player_hit, top being what the pop of its Shoe::deal returns.
player_hit(t, player, top) ==
    IF t.state # "Dealt"
    THEN Result(t, NoReturn, PlayerHitPanic)
    ELSE IF busted(player_hand(t, player))
    THEN Result(t, ReturnedFor("player_hit", player, TRUE), "")
    ELSE LET d == ShoeDeal(t.shoe, top)
         IN  IF d.card = None
             THEN Result(t, NoReturn, UnwrapNone)
             ELSE PlayerHitInserted(t, player, d,
                                    insert(player_hand(t, player), d.card[1]))

\* dealer_hit leaving the phase as it was.
dealer_hit_KeepsPhase(t, top) ==
    IF t.state = "Open"
    THEN Result(t, NoReturn, DealerHitPanic)
    ELSE IF busted(t.dealer)
    THEN Result(t, Returned("dealer_hit", TRUE), "")
    ELSE LET d == ShoeDeal(t.shoe, top)
         IN  IF d.card = None
             THEN Result(t, NoReturn, UnwrapNone)
             ELSE DealerHitInserted(t, d, insert(t.dealer, d.card[1]), t.state)

\* Table::dealer_hit, top being what the pop of its Shoe::deal returns.
dealer_hit(t, top) ==
    IF t.state = "Open"
    THEN Result(t, NoReturn, DealerHitPanic)
    ELSE IF busted(t.dealer)
    THEN Result(t, Returned("dealer_hit", TRUE), "")
    ELSE LET d == ShoeDeal(t.shoe, top)
         IN  IF d.card = None
             THEN Result(t, NoReturn, UnwrapNone)
             ELSE DealerHitInserted(t, d, insert(t.dealer, d.card[1]), "Flipped")

\* What the pop of a call of Table::player_hit for player on t can return:
\* None of a call that returns or panics before its Shoe::deal, which makes
\* no pop.
PlayerHitTops(t, player) ==
    IF t.state # "Dealt" \/ busted(player_hand(t, player)) THEN {None}
    ELSE Tops(t.shoe.cards)

\* What the pop of a call of Table::dealer_hit on t can return.
DealerHitTops(t) ==
    IF t.state = "Open" \/ busted(t.dealer) THEN {None}
    ELSE Tops(t.shoe.cards)

\* Table::dealer_value
dealer_value(t) == IF t.state = "Open" THEN None ELSE value(t.dealer)

\* flip_hole without its test of the state.
flip_hole_Unchecked(t) ==
    Result([t EXCEPT !.state = "Flipped"], Returned("flip_hole", <<>>), "")

\* Table::flip_hole
flip_hole(t) ==
    IF t.state = "Open"
    THEN Result(t, NoReturn, FlipHolePanic)
    ELSE Result([t EXCEPT !.state = "Flipped"], Returned("flip_hole", <<>>), "")

\* ------------------------------------------------------------------ state

\* hand:  the Hand of the hand specification
\* table: the Table of the table specification
\* ret:   what the last call on the table returned
\* panic: the message of the panic that ended the program, "" while it runs
\* shoe:  the Shoe of the shoe specification
\* dealt: the cards that Shoe::deal has returned, in order: since shoe was
\*        built (shoe specification), or to the last call on the table
\* bets:  the two Bets of the bet specification
\* last_outcome: the variable of that name in main of examples/basic.rs
VARIABLES hand, table, ret, panic, shoe, dealt, bets, last_outcome, pc

vars == <<hand, table, ret, panic, shoe, dealt, bets, last_outcome, pc>>

\* No table is built in the hand specification.
NoTable == [state |-> "None"]

\* No shoe is built on its own in the hand and table specifications.
NoShoe == [decks |-> 0]

\* pc is where main of the example program stands: at the read() of its
\* loop, or in the sleep of the loop of its Down arm. A specification
\* without the example program leaves it at AtRead.
AtRead == "read"
AtSleep == "sleep"

\* ------------------------------------------ the hand specification

\* The cards a caller may insert: one of every rank.
InsertCards == {Card(r) : r \in RankSet}

InitHand ==
    /\ hand = DefaultHand
    /\ table = NoTable
    /\ ret = NoReturn
    /\ panic = ""
    /\ shoe = NoShoe
    /\ dealt = <<>>
    /\ bets = <<DefaultBet, DefaultBet>>
    /\ last_outcome = None
    /\ pc = AtRead

HandInsert(card) ==
    /\ panic = ""
    /\ Len(hand.cards) < MaxHandLen
    /\ hand' = insert(hand, card).hand
    /\ panic' = insert(hand, card).panic
    /\ UNCHANGED <<table, ret, shoe, dealt, bets, last_outcome, pc>>

NextHand == \E card \in InsertCards : HandInsert(card)

SpecHand == InitHand /\ [][NextHand]_vars

\* ----------------------------------------- the table specification

\* The f32 of the literal 0.40, and of 2.0 / 52.0, which lies above 2/52
\* and below the penetration the code computes for a shoe of one deck
\* with two cards out.
F32_0_40 == [num |-> 13421773, den |-> 33554432]
F32_2_52 == [num |-> 10324441, den |-> 268435456]

\* The tables built: <<num_decks, num_spots, max_penetration>>, the last
\* an f32 (0.40, 0.0, 1.5, 2.0 / 52.0). A table of no deck has an empty
\* shoe.
Tables ==
    {<<1, 1, F32_0_40>>,
     <<1, 0, [num |-> 0, den |-> 1]>>,
     <<1, 0, [num |-> 3, den |-> 2]>>,
     <<1, 0, F32_2_52>>,
     <<2, 0, [num |-> 0, den |-> 1]>>,
     <<0, 1, F32_0_40>>}

Init ==
    /\ hand = DefaultHand
    /\ \E cfg \in Tables : table = TableNew(cfg[1], cfg[2], cfg[3])
    /\ ret = NoReturn
    /\ panic = ""
    /\ shoe = NoShoe
    /\ dealt = <<>>
    /\ bets = <<DefaultBet, DefaultBet>>
    /\ last_outcome = None
    /\ pc = AtRead

\* The call left result r behind.
Left(r) ==
    /\ table' = r.table
    /\ ret' = r.ret
    /\ panic' = r.panic
    /\ dealt' = r.dealt
    /\ UNCHANGED <<hand, shoe, bets, last_outcome, pc>>

Spots == 1..Len(table.player_hands)

\* The cards out of the shoe of t.
CardsOut(t) == (52 * t.shoe.decks) - ShoeLen(t.shoe)

\* The number of cards out of the shoe of t at which a run ends.
RunBound(t) == IF Len(t.player_hands) = 0 THEN MaxDealtNoSpot ELSE MaxDealt

\* The program runs, and the run goes on.
Running == panic = "" /\ CardsOut(table) < RunBound(table)

\* The cards of a call of Table::deal on t keep the shoe within the bound
\* of the run.
DealFits(t) ==
    \/ t.state # "Open"
    \/ (52 * t.num_decks) - BagCardinality(DealSource(t))
           + 2 * (Len(t.player_hands) + 1) <= RunBound(t)

Reset ==
    /\ Running
    /\ Left(reset(table))

ClearHands ==
    /\ Running
    /\ Left(clear_hands(table))

Deal ==
    /\ Running
    /\ DealFits(table)
    /\ \E tops \in DealTops(table) : Left(deal(table, tops))

Peek ==
    /\ Running
    /\ Left(peek(table))

GetOutcome ==
    /\ Running
    /\ \E player \in Spots :
          Left(Result(table,
                      ReturnedFor("get_outcome", player, get_outcome(table, player)),
                      ""))

PlayerHit ==
    /\ Running
    /\ \E player \in Spots :
          \E top \in PlayerHitTops(table, player) :
              Left(player_hit(table, player, top))

DealerHit ==
    /\ Running
    /\ \E top \in DealerHitTops(table) : Left(dealer_hit(table, top))

FlipHole ==
    /\ Running
    /\ Left(flip_hole(table))

Next ==
    \/ Reset
    \/ ClearHands
    \/ Deal
    \/ Peek
    \/ GetOutcome
    \/ PlayerHit
    \/ DealerHit
    \/ FlipHole

Spec == Init /\ [][Next]_vars

\* ------------------------------------------ the shoe specification

InitShoe ==
    /\ hand = DefaultHand
    /\ table = NoTable
    /\ ret = NoReturn
    /\ panic = ""
    /\ \E decks \in 0..MaxDecks : shoe = ShoeNew(decks)
    /\ dealt = <<>>
    /\ bets = <<DefaultBet, DefaultBet>>
    /\ last_outcome = None
    /\ pc = AtRead

\* A call of Shoe::deal.
ShoeDealCall ==
    /\ Len(dealt) < MaxShoeDealt
    /\ \E top \in Tops(shoe.cards) :
          LET d == ShoeDeal(shoe, top)
          IN  /\ shoe' = d.shoe
              /\ ret' = Returned("shoe_deal", d.card)
              /\ dealt' = IF d.card = None THEN dealt ELSE Append(dealt, d.card[1])
    /\ UNCHANGED <<hand, table, panic, bets, last_outcome, pc>>

\* A call of Shoe::reset.
ShoeReset ==
    /\ shoe' = ShoeNew(shoe.decks)
    /\ ret' = Returned("shoe_reset", <<>>)
    /\ dealt' = <<>>
    /\ UNCHANGED <<hand, table, panic, bets, last_outcome, pc>>

NextShoe == ShoeDealCall \/ ShoeReset

SpecShoe == InitShoe /\ [][NextShoe]_vars

\* ------------------------------------------- the bet specification

InitBet ==
    /\ hand = DefaultHand
    /\ table = NoTable
    /\ ret = NoReturn
    /\ panic = ""
    /\ shoe = NoShoe
    /\ dealt = <<>>
    /\ bets = <<DefaultBet, DefaultBet>>
    /\ last_outcome = None
    /\ pc = AtRead

\* Bet i was replaced by bet b, which the call op returned.
BetLeft(op, i, b) ==
    /\ bets' = [bets EXCEPT ![i] = b]
    /\ ret' = Returned(op, BetUnits(b))
    /\ UNCHANGED <<hand, table, panic, shoe, dealt, last_outcome, pc>>

\* bets[i] = Bet::from(chip)
BetFromChip ==
    /\ panic = ""
    /\ \E i \in 1..2, chip \in Chips : BetLeft("bet_from", i, BetFrom(chip))

\* bets[i] = Bet::default()
BetDefaultCall ==
    /\ panic = ""
    /\ \E i \in 1..2 : BetLeft("bet_default", i, DefaultBet)

\* bets[i] = bets[i] + bets[j]
BetAddCall ==
    /\ panic = ""
    /\ \E i \in 1..2, j \in 1..2 :
          /\ BetAdd(bets[i], bets[j]).units <= MaxUnits
          /\ BetLeft("bet_add", i, BetAdd(bets[i], bets[j]))

\* bets[i] = bets[i] - bets[j]
BetSubCall ==
    /\ panic = ""
    /\ \E i \in 1..2, j \in 1..2 :
          LET r == BetSub(bets[i], bets[j])
          IN  IF r.panic = ""
              THEN BetLeft("bet_sub", i, r.bet)
              ELSE /\ panic' = r.panic
                   /\ ret' = NoReturn
                   /\ UNCHANGED <<hand, table, shoe, dealt, bets, last_outcome, pc>>

\* bets[i] = bets[i] * rhs
BetMulCall ==
    /\ panic = ""
    /\ \E i \in 1..2, rhs \in 0..MaxFactor :
          /\ BetMul(bets[i], rhs).units <= MaxUnits
          /\ BetLeft("bet_mul", i, BetMul(bets[i], rhs))

NextBet ==
    \/ BetFromChip
    \/ BetDefaultCall
    \/ BetAddCall
    \/ BetSubCall
    \/ BetMulCall

SpecBet == InitBet /\ [][NextBet]_vars

\* ------------------------------- the example program (examples/basic.rs)

\* What a step of main leaves behind: the table, last_outcome, the panic
\* message ("" when there is none) and where main stands, back at read().
KeyResult(t, lo, p) ==
    [table |-> t, last_outcome |-> lo, panic |-> p, pc |-> AtRead]

\* main asleep in the loop of the Down arm, the table printed.
Asleep(t, lo) ==
    [table |-> t, last_outcome |-> lo, panic |-> "", pc |-> AtSleep]

\* The arm of KeyCode::Right, tops being what the pops of its Shoe::deal
\* calls return, in order.
KeyRight(t, lo, tops) ==
    IF lo # None
    THEN LET c == clear_hands(t)
         IN  IF c.panic # "" THEN KeyResult(c.table, lo, c.panic)
             ELSE LET d == deal(c.table, tops)
                  IN  IF d.panic # "" THEN KeyResult(d.table, lo, d.panic)
                      ELSE LET p == peek(d.table)
                           IN  IF p.panic # ""
                               THEN KeyResult(p.table, lo, p.panic)
                               ELSE IF p.ret.val
                               THEN KeyResult(p.table,
                                              Some(get_outcome(p.table, 1)), "")
                               ELSE IF get_outcome(p.table, 1) = "Blackjack"
                               THEN KeyResult(p.table,
                                              Some(get_outcome(p.table, 1)), "")
                               ELSE KeyResult(p.table, None, "")
    ELSE LET h == player_hit(t, 1, tops[1])
         IN  IF h.panic # "" THEN KeyResult(h.table, lo, h.panic)
             ELSE IF busted(player_hand(h.table, 1))
             THEN KeyResult(h.table, Some(get_outcome(h.table, 1)), "")
             ELSE KeyResult(h.table, lo, "")

\* What the pops of the Right arm can return, in order: those of its deal,
\* when clear_hands returns, or the one of its player_hit.
RightTops(t, lo) ==
    IF lo # None
    THEN (IF clear_hands(t).panic # "" THEN {<<>>}
          ELSE DealTops(clear_hands(t).table))
    ELSE {<<top>> : top \in PlayerHitTops(t, 1)}

\* The arm of KeyCode::Down from the test of its while loop to the next
\* sleep, top being what the pop of its Shoe::deal returns: a turn of the
\* loop hits the dealer, prints the table and sleeps; the loop over, the
\* outcome is taken and main is back at read().
DownLoop(t, lo, top) ==
    IF dealer_value(t) # None /\ dealer_value(t)[1] < 17
    THEN LET r == dealer_hit(t, top)
         IN  IF r.panic # "" THEN KeyResult(r.table, lo, r.panic)
             ELSE Asleep(r.table, lo)
    ELSE KeyResult(t, Some(get_outcome(t, 1)), "")

\* The arm of KeyCode::Down from the key press to its first sleep, or to
\* its end when the loop has no turn to take.
KeyDown(t, lo, top) ==
    IF lo # None
    THEN KeyResult(t, lo, "")
    ELSE DownLoop(t, lo, top)

\* main up to its loop: Table::new(1, 1, 0.40), last_outcome, table.deal().
InitExample ==
    /\ hand = DefaultHand
    /\ \E built \in {TableNew(1, 1, F32_0_40)} :
          \E tops \in DealTops(built) : table = deal(built, tops).table
    /\ ret = NoReturn
    /\ panic = ""
    /\ shoe = NoShoe
    /\ dealt = <<>>
    /\ bets = <<DefaultBet, DefaultBet>>
    /\ last_outcome = Some("Push")
    /\ pc = AtRead

\* The key press left result r behind.
KeyLeft(r) ==
    /\ table' = r.table
    /\ last_outcome' = r.last_outcome
    /\ panic' = r.panic
    /\ pc' = r.pc
    /\ UNCHANGED <<hand, ret, shoe, dealt, bets>>

\* The Right key read at read().
PressRight ==
    /\ panic = ""
    /\ pc = AtRead
    /\ \E tops \in RightTops(table, last_outcome) :
          KeyLeft(KeyRight(table, last_outcome, tops))

\* A step of the Down arm: from the Down key read at read(), or from the
\* end of a sleep of its loop, to the next sleep or to the end of the arm.
\* Keys pressed during a sleep wait for the next read().
PressDown ==
    /\ panic = ""
    /\ \E top \in DealerHitTops(table) :
          KeyLeft(IF pc = AtRead THEN KeyDown(table, last_outcome, top)
                  ELSE DownLoop(table, last_outcome, top))

NextExample == PressRight \/ PressDown

SpecExample == InitExample /\ [][NextExample]_vars

\* --------------------------------------------- reference notions of a hand

RankIndex(r) == CHOOSE i \in 1..Len(Ranks) : Ranks[i] = r

NumAces(cs) == Cardinality({i \in 1..Len(cs) : is_ace(cs[i])})

\* Every total of the cards: each ace counted as 1 or as 11.
LegalTotals(cs) == {t \in {LowSum(cs) + 10 * k : k \in 0..NumAces(cs)} : t <= 21}

SetMax(S) == CHOOSE x \in S : \A y \in S : y <= x

TenValued(card) == values(card) = <<10>>

\* A fresh hand with the cards of cs inserted one at a time, in order.
RECURSIVE InsertAll(_, _)
InsertAll(h, cs) ==
    IF cs = <<>> THEN h ELSE InsertAll(insert(h, cs[1]).hand, Tail(cs))

\* The sequence cs with card c put before the first card of a higher rank.
RECURSIVE SortedInsert(_, _)
SortedInsert(cs, c) ==
    IF cs = <<>> THEN <<c>>
    ELSE IF RankIndex(c.rank) <= RankIndex(cs[1].rank) THEN <<c>> \o cs
    ELSE <<cs[1]>> \o SortedInsert(Tail(cs), c)

\* The cards of cs in rank order: the one canonical order of its multiset.
RECURSIVE SortCards(_)
SortCards(cs) == IF cs = <<>> THEN <<>> ELSE SortedInsert(SortCards(Tail(cs)), cs[1])

\* What the queries of a hand report.
Classification(h) == <<value(h), busted(h), blackjack(h), is_soft(h)>>

HasRanks(h, rs) ==
    /\ Len(h.cards) = Len(rs)
    /\ \A i \in 1..Len(rs) : h.cards[i].rank = rs[i]

\* ------------------------------------------------------------------ claims

\* C1: after every insert into a fresh hand, value() is None exactly when
\* busted() is true, and a value that is Some(v) has v <= 21.
C1_ValueNoneIffBusted ==
    /\ (value(hand) = None) <=> busted(hand)
    /\ value(hand) # None => value(hand)[1] <= 21

\* C1 witness: ten, nine, five inserted: busted, with no value.
C1_Witness ==
    /\ HasRanks(hand, <<"Ten", "Nine", "Five">>)
    /\ busted(hand)
    /\ value(hand) = None

\* C2: value() is the largest total not exceeding 21 with each ace counted
\* as 1 or 11 and every other card at its pip value, and the hand is busted
\* exactly when every such total exceeds 21.
C2_ValueIsBestLegalTotal ==
    /\ busted(hand) <=> LegalTotals(hand.cards) = {}
    /\ LegalTotals(hand.cards) # {} =>
           value(hand) = Some(SetMax(LegalTotals(hand.cards)))

\* C2 witness: ace, eight, ace is worth 20 (one ace at 11, one at 1).
C2_Witness ==
    /\ HasRanks(hand, <<"Ace", "Eight", "Ace">>)
    /\ value(hand) = Some(20)

\* C3: blackjack() is true exactly for a hand of two cards, one an ace and
\* the other worth ten, in either order.
C3_BlackjackIffAceAndTen ==
    blackjack(hand) <=>
        /\ Len(hand.cards) = 2
        /\ \E i, j \in 1..2 :
              i # j /\ is_ace(hand.cards[i]) /\ TenValued(hand.cards[j])

\* C3 witness: king then ace, the order handled by the Hard arm.
C3_Witness ==
    /\ HasRanks(hand, <<"King", "Ace">>)
    /\ blackjack(hand)

\* C4: the classification does not depend on the insertion order: the hand
\* reports what a fresh hand reports after the same cards are inserted in
\* rank order (so any two orders of one multiset agree), and a hand of three
\* or more cards is never a blackjack.
C4_OrderIndependent ==
    /\ Classification(hand) =
           Classification(InsertAll(DefaultHand, SortCards(hand.cards)))
    /\ Len(hand.cards) >= 3 => ~blackjack(hand)

\* C4 witness: king, five, ace (not in rank order) reports hard 16, as
\* ace, five, king does.
C4_Witness ==
    /\ HasRanks(hand, <<"King", "Five", "Ace">>)
    /\ SortCards(hand.cards) # hand.cards
    /\ Classification(hand) = <<Some(16), FALSE, FALSE, FALSE>>

\* C5 as stated: two aces inserted into a fresh hand give Soft(12, 0).
C5_TwoAcesSoft12_0 ==
    HasRanks(hand, <<"Ace", "Ace">>) => hand.val = Soft(12, 0)

\* C5 amended: two aces inserted into a fresh hand give Soft(12, 1): total
\* 12 with one ace recorded as forced to count as 1.
C5_TwoAcesSoft12_1 ==
    HasRanks(hand, <<"Ace", "Ace">>) => hand.val = Soft(12, 1)

\* C5 witness: the hand of two aces.
C5_Witness ==
    /\ HasRanks(hand, <<"Ace", "Ace">>)
    /\ hand.num_aces = 2
    /\ hand.val.tag = "Soft"

\* C6: is_soft() is true exactly when the hand is not bust, holds an ace
\* and its value counts one ace as 11 (the low sum of the cards plus 10).
C6_SoftIffOneAceAsEleven ==
    is_soft(hand) <=>
        /\ ~busted(hand)
        /\ NumAces(hand.cards) >= 1
        /\ value(hand) = Some(LowSum(hand.cards) + 10)

\* C6 witness: ace, five, king: an ace is held, yet it counts as 1 and the
\* hand is not soft.
C6_Witness ==
    /\ HasRanks(hand, <<"Ace", "Five", "King">>)
    /\ ~is_soft(hand)
    /\ value(hand) = Some(16)

\* Outcome o is what the first matching rule gives for the dealer's hand d
\* and the player's hand h: dealer blackjack: Push against a player
\* blackjack, else Lose; player blackjack: Blackjack; player busted: Lose,
\* whatever the dealer holds; dealer busted: Win; else Win, Lose or Push as
\* the player's value is above, below or equal to the dealer's.
OutcomeByPriority(d, h, o) ==
    /\ (blackjack(d) /\ blackjack(h)) => o = "Push"
    /\ (blackjack(d) /\ ~blackjack(h)) => o = "Lose"
    /\ (~blackjack(d) /\ blackjack(h)) => o = "Blackjack"
    /\ (~blackjack(d) /\ ~blackjack(h) /\ busted(h)) => o = "Lose"
    /\ (~blackjack(d) /\ ~blackjack(h) /\ ~busted(h) /\ busted(d)) => o = "Win"
    /\ (~blackjack(d) /\ ~blackjack(h) /\ ~busted(h) /\ ~busted(d)) =>
           /\ value(h)[1] > value(d)[1] => o = "Win"
           /\ value(h)[1] < value(d)[1] => o = "Lose"
           /\ value(h)[1] = value(d)[1] => o = "Push"

\* C7: get_outcome returns what the first matching rule of the priority
\* list gives for the hands on the table. (get_outcome reads the hands
\* alone: it is checked on every table reached, and, once a player has
\* busted, on the table that each card the dealer can draw leaves.)
C7_OutcomeByPriority ==
    /\ ret.op = "get_outcome" => ret.val = get_outcome(table, ret.player)
    /\ \A player \in Spots :
          /\ OutcomeByPriority(table.dealer, table.player_hands[player],
                               get_outcome(table, player))
          /\ (panic = "" /\ busted(table.player_hands[player])) =>
                \A top \in Tops(table.shoe.cards) :
                    \A t1 \in {dealer_hit(table, top).table} :
                        OutcomeByPriority(t1.dealer, t1.player_hands[player],
                                          get_outcome(t1, player))

\* C7 witness: a player has busted against a dealer that a card can bust:
\* the outcome is Lose, and Lose again once the dealer has busted.
C7_Witness ==
    /\ panic = ""
    /\ ret.op = "player_hit"
    /\ busted(table.player_hands[ret.player])
    /\ get_outcome(table, ret.player) = "Lose"
    /\ \E top \in Tops(table.shoe.cards) :
          /\ busted(dealer_hit(table, top).table.dealer)
          /\ get_outcome(dealer_hit(table, top).table, ret.player) = "Lose"

\* C8: a step that changes the phase takes it from Open to Dealt (deal),
\* from Dealt to Flipped (a peek that finds a dealer blackjack, dealer_hit,
\* flip_hole) or from Flipped to Open (clear_hands), and no other way.
C8_PhaseChanges ==
    [][table'.state # table.state =>
          \/ /\ table.state = "Open" /\ table'.state = "Dealt"
             /\ ret'.op = "deal" \/ panic' = UnwrapNone
          \/ /\ table.state = "Dealt" /\ table'.state = "Flipped"
             /\ \/ ret'.op = "peek" /\ ret'.val = TRUE /\ blackjack(table.dealer)
                \/ ret'.op = "dealer_hit"
                \/ ret'.op = "flip_hole"
          \/ /\ table.state = "Flipped" /\ table'.state = "Open"
             /\ ret'.op = "clear_hands"]_vars

\* C8 witness: a round gone through all its phases: clear_hands has put a
\* table back to Open after cards left the shoe.
C8_Witness ==
    /\ ret.op = "clear_hands"
    /\ table.state = "Open"
    /\ ShoeLen(table.shoe) < 52 * table.num_decks

\* C9: deal called in Dealt or Flipped panics before a card is dealt,
\* whatever the shoe holds: hands, shoe and phase are as they were.
C9_DealOnlyInOpen ==
    /\ table.state \in {"Dealt", "Flipped"} =>
           \A top \in Tops(table.shoe.cards) :
               deal(table, <<top>>) = Result(table, NoReturn, DealPanic)
    /\ panic = DealPanic => (table.state \in {"Dealt", "Flipped"} /\ dealt = <<>>)

\* C9 witness: deal has panicked on a table in Flipped whose hands hold
\* their cards.
C9_Witness ==
    /\ panic = DealPanic
    /\ table.state = "Flipped"
    /\ Len(table.dealer.cards) >= 2
    /\ ShoeLen(table.shoe) < 52 * table.num_decks

\* C10: clear_hands called in Open or Dealt panics and leaves the hands and
\* the phase as they were.
C10_ClearHandsOnlyInFlipped ==
    /\ table.state \in {"Open", "Dealt"} =>
           clear_hands(table) = Result(table, NoReturn, ClearHandsPanic)
    /\ panic = ClearHandsPanic => table.state \in {"Open", "Dealt"}

\* C10 witness: clear_hands has panicked on a dealt table, whose hands still
\* hold their two cards.
C10_Witness ==
    /\ panic = ClearHandsPanic
    /\ table.state = "Dealt"
    /\ Len(table.dealer.cards) = 2
    /\ Len(table.player_hands) = 1
    /\ \A i \in DOMAIN table.player_hands : Len(table.player_hands[i].cards) >= 2

\* C11: once a deal has been followed by a peek that returned true, the
\* phase is Flipped and player_hit panics for every spot, whatever the shoe
\* holds, leaving the table as it was.
C11_NoHitAfterPeekTrue ==
    (panic = "" /\ ret.op = "peek" /\ ret.val = TRUE) =>
        /\ table.state = "Flipped"
        /\ \A player \in Spots, top \in Tops(table.shoe.cards) :
              player_hit(table, player, top)
                  = Result(table, NoReturn, PlayerHitPanic)

\* player_hit has panicked on the untouched two-card hands of a round that
\* the dealer's blackjack ended.
C11_Witness ==
    /\ panic = PlayerHitPanic
    /\ table.state = "Flipped"
    /\ blackjack(table.dealer)
    /\ Len(table.dealer.cards) = 2
    /\ Len(table.player_hands) = 1
    /\ \A player \in Spots : Len(table.player_hands[player].cards) = 2

\* C12: peek and player_hit return in the Dealt state alone and panic in
\* Open and in Flipped; no step taken from the Flipped state adds a card to
\* a player's hand.
C12_PeekAndHitOnlyInDealt ==
    /\ [](panic = "" =>
            /\ table.state \in {"Open", "Flipped"} =>
                  /\ peek(table) = Result(table, NoReturn, PeekPanic)
                  /\ \A player \in Spots, top \in Tops(table.shoe.cards) :
                        player_hit(table, player, top)
                            = Result(table, NoReturn, PlayerHitPanic)
            /\ table.state = "Dealt" => peek(table).panic = "")
    /\ [][/\ ret'.op \in {"peek", "player_hit"} => table.state = "Dealt"
          /\ panic' \in {PeekPanic, PlayerHitPanic} =>
                table.state \in {"Open", "Flipped"}
          /\ table.state = "Flipped" =>
                \A player \in Spots :
                    Len(table'.player_hands[player].cards)
                        <= Len(table.player_hands[player].cards)]_vars

\* player_hit has panicked after flip_hole turned over a hole card that
\* made no blackjack.
C12_Witness ==
    /\ panic = PlayerHitPanic
    /\ table.state = "Flipped"
    /\ Len(table.player_hands) = 1
    /\ ~blackjack(table.dealer)
    /\ Len(table.player_hands[1].cards) = 2

\* C13: from the return of a peek that found the dealer's blackjack, no
\* call other than clear_hands adds a card to the dealer's or to a player's
\* hand or changes the outcome of any spot. (The calls read the table alone,
\* so the steps taken right after the peek decide it for the whole span up
\* to clear_hands.)
C13_NoPlayAfterPeekTrue ==
    [][(panic = "" /\ ret.op = "peek" /\ ret.val = TRUE
            /\ ret'.op # "clear_hands") =>
          /\ table'.dealer = table.dealer
          /\ table'.player_hands = table.player_hands
          /\ \A player \in Spots :
                get_outcome(table', player) = get_outcome(table, player)]_vars

\* The bag of the cards of cs: every card with the number of its copies.
CardBag(cs) == BagOfAll(LAMBDA i : cs[i], SetToBag(1..Len(cs)))

RECURSIVE CountSum(_)
CountSum(cs) == IF cs = <<>> THEN 0 ELSE count(Head(cs)) + CountSum(Tail(cs))

\* C16: deal returns true exactly when the penetration it found was
\* strictly above max_penetration; it then dealt from a fresh full shoe
\* whose count began at zero, leaving 52 * num_decks - 2 * (spots + 1)
\* cards; otherwise it dealt on from the shoe it found.
C16_ReshuffleIffPastMax ==
    [][ret'.op = "deal" =>
          LET over == FracGreater(penetration(table.shoe), table.max_penetration)
              n == 2 * (Len(table.player_hands) + 1)
          IN  /\ ret'.val = over
              /\ Len(dealt') = n
              /\ over =>
                    /\ ShoeLen(table'.shoe) = 52 * table.num_decks - n
                    /\ table'.shoe.cards (+) CardBag(dealt')
                          = FreshCards(table.num_decks)
                    /\ table'.shoe.counter.running_count = CountSum(dealt')
              /\ ~over =>
                    /\ table'.shoe.cards (+) CardBag(dealt') = table.shoe.cards
                    /\ table'.shoe.counter.running_count
                          = table.shoe.counter.running_count + CountSum(dealt')
              /\ table'.shoe.decks = table.shoe.decks]_vars

\* deal has returned true and left a fresh shoe short of the cards dealt,
\* which alone are counted.
C16_Witness ==
    /\ panic = ""
    /\ ret.op = "deal"
    /\ ret.val = TRUE
    /\ ShoeLen(table.shoe)
          = 52 * table.num_decks - 2 * (Len(table.player_hands) + 1)
    /\ table.shoe.counter.running_count = CountSum(dealt)
    /\ CountSum(dealt) # 0

\* C17: between the building of a shoe (or its reset) and its next reset,
\* the cards left and the cards Shoe::deal has returned add up to
\* 52 * decks, and every call of Shoe::deal that returns a card shortens
\* the shoe by exactly one card.
C17_RemainingPlusDealt ==
    /\ [](ShoeLen(shoe) + Len(dealt) = 52 * shoe.decks)
    /\ [][(ret'.op = "shoe_deal" /\ ret'.val # None) =>
              ShoeLen(shoe') = ShoeLen(shoe) - 1]_vars

\* Shoe::deal has returned three cards or more of a two-deck shoe.
C17_Witness ==
    /\ shoe.decks = 2
    /\ ret.op = "shoe_deal"
    /\ Len(dealt) >= 3
    /\ ShoeLen(shoe) = 104 - Len(dealt)

\* C19: Shoe::deal on an empty shoe returns None and leaves the cards and
\* the counter as they were; on a shoe with cards it returns Some(card) for
\* the one card it removed, and counts that card.
C19_DealNoneWhenEmpty ==
    [][ret'.op = "shoe_deal" =>
          IF shoe.cards = EmptyBag
          THEN /\ ret'.val = None
               /\ shoe' = shoe
          ELSE /\ Len(ret'.val) = 1
               /\ BagIn(ret'.val[1], shoe.cards)
               /\ shoe'.cards (+) SetToBag({ret'.val[1]}) = shoe.cards
               /\ ShoeLen(shoe') = ShoeLen(shoe) - 1
               /\ shoe'.counter.running_count
                     = shoe.counter.running_count + count(ret'.val[1])]_vars

\* Shoe::deal has returned None on a shoe without a card.
C19_Witness ==
    /\ ret.op = "shoe_deal"
    /\ ret.val = None
    /\ shoe.cards = EmptyBag
    /\ ShoeLen(shoe) = 0
    /\ shoe.counter.running_count = 0

\* The value of the chips a bet holds.
ChipTotal(bet) ==
    Entry(bet.chips, "One") * ChipValue("One")
        + Entry(bet.chips, "Five") * ChipValue("Five")
        + Entry(bet.chips, "TwentyFive") * ChipValue("TwentyFive")
        + Entry(bet.chips, "Hundred") * ChipValue("Hundred")

\* C20: the units of every bet built from chips, Bet::default, additions,
\* subtractions that return and multiplications are the value of the chips
\* it holds; the units of a sum are the sum of the units; adding the default
\* bet on either side changes neither the units nor the chips.
C20_UnitsAreChipTotal ==
    \A i \in 1..2 :
        /\ BetUnits(bets[i]) = ChipTotal(bets[i])
        /\ BetAdd(bets[i], DefaultBet) = bets[i]
        /\ BetAdd(DefaultBet, bets[i]) = bets[i]
        /\ \A j \in 1..2 :
              /\ BetUnits(BetAdd(bets[i], bets[j]))
                    = BetUnits(bets[i]) + BetUnits(bets[j])
              /\ BetSub(bets[i], bets[j]).panic = "" =>
                    BetUnits(BetSub(bets[i], bets[j]).bet)
                        = ChipTotal(BetSub(bets[i], bets[j]).bet)
              /\ \A rhs \in 0..MaxFactor :
                    BetUnits(BetMul(bets[i], rhs)) = ChipTotal(BetMul(bets[i], rhs))

\* A multiplication has returned a bet of 30 units in chips of two
\* denominations.
C20_Witness ==
    /\ ret.op = "bet_mul"
    /\ ret.val = 30
    /\ \E i \in 1..2 :
          /\ BetUnits(bets[i]) = 30
          /\ Entry(bets[i].chips, "TwentyFive") = 1
          /\ Entry(bets[i].chips, "Five") = 1


\* C21: a - b panics with the overflow of a subtraction whenever b holds
\* more chips of some denomination than a, whatever the units of a and b;
\* when a holds every chip of b it returns a bet of units(a) - units(b).
C21_SubPanicsUnlessContained ==
    \A i \in 1..2, j \in 1..2 :
        LET a == bets[i]
            b == bets[j]
            r == BetSub(a, b)
        IN  IF \E c \in Chips : Entry(b.chips, c) > Entry(a.chips, c)
            THEN r.panic = SubOverflow
            ELSE /\ r.panic = ""
                 /\ BetUnits(r.bet) = BetUnits(a) - BetUnits(b)

\* The subtraction of a One chip from TwentyFive + Five has panicked.
C21_Witness ==
    /\ panic = SubOverflow
    /\ \E i \in 1..2, j \in 1..2 :
          /\ bets[j] = BetFrom("One")
          /\ BetUnits(bets[i]) = 30
          /\ Entry(bets[i].chips, "TwentyFive") = 1
          /\ Entry(bets[i].chips, "Five") = 1
          /\ Entry(bets[i].chips, "One") = 0

\* C22: after every insert into a hand that held a card, verify is true:
\* a blackjack has exactly two cards, a value is 21 at most, and a
\* Soft(v, a) hand has a < num_aces and
\* v = (the low values of its cards, summed) + 10 * (num_aces - a).
C22_VerifyHolds ==
    Len(hand.cards) >= 2 =>
        /\ panic = ""
        /\ verify(hand)
        /\ blackjack(hand) => Len(hand.cards) = 2
        /\ value(hand) # None => value(hand)[1] <= 21
        /\ hand.val.tag = "Soft" =>
              /\ hand.val.a < hand.num_aces
              /\ hand.val.v = LowSum(hand.cards)
                                 + 10 * (hand.num_aces - hand.val.a)
              /\ hand.num_aces = NumAces(hand.cards)

\* A soft hand of three cards, two of them aces, one ace forced to 1.
C22_Witness ==
    /\ Len(hand.cards) = 3
    /\ hand.val.tag = "Soft"
    /\ hand.num_aces = 2
    /\ hand.val.a = 1

\* C23: an insert into a busted hand leaves it busted: value stays None
\* and busted stays true.
C23_BustAbsorbing ==
    [][busted(hand) =>
          /\ hand'.val = Bust
          /\ value(hand') = None
          /\ busted(hand')]_vars

\* A card has been put on a hand that its first three cards had busted.
C23_Witness ==
    /\ Len(hand.cards) = 4
    /\ busted(hand)
    /\ LowSum(SubSeq(hand.cards, 1, 3)) > 21

\* The totals within 21 among 11 and 21 plus each value of the card.
BlackjackPlus(card) ==
    {b + values(card)[i] : b \in {11, 21}, i \in 1..Len(values(card))} \cap 0..21

\* C24: an insert into a blackjack leaves Hard of the best total within 21
\* among 11 and 21 plus each value of the card (Bust if there is none),
\* never Soft and never Blackjack; no hand of three cards or more is a
\* blackjack.
C24_BlackjackDegrades ==
    /\ [](Len(hand.cards) >= 3 => ~blackjack(hand))
    /\ [][blackjack(hand) =>
              /\ hand'.val.tag \in {"Hard", "Bust"}
              /\ hand'.val = IF BlackjackPlus(hand'.cards[Len(hand'.cards)]) = {}
                             THEN Bust
                             ELSE Hard(SetMax(BlackjackPlus(
                                           hand'.cards[Len(hand'.cards)])))]_vars

\* A fourth card has been put on a hand that began as a blackjack.
C24_Witness ==
    /\ Len(hand.cards) = 4
    /\ insert(insert(DefaultHand, hand.cards[1]).hand, hand.cards[2]).hand.val = Blackjack
    /\ hand.val.tag = "Hard"

\* Table t1 is t with a card of its shoe moved onto hand h, giving hand h1:
\* cs is that one card, the shoe lost it alone and counted it.
CardMoved(t, t1, h, h1, cs) ==
    /\ Len(cs) = 1
    /\ BagIn(cs[1], t.shoe.cards)
    /\ t1.shoe.cards (+) SetToBag({cs[1]}) = t.shoe.cards
    /\ ShoeLen(t1.shoe) = ShoeLen(t.shoe) - 1
    /\ t1.shoe.counter.running_count
          = t.shoe.counter.running_count + count(cs[1])
    /\ h1.cards = Append(h.cards, cs[1])
    /\ h1 = insert(h, cs[1]).hand

C26_DealerHitFrame ==
    /\ [](panic = "" =>
            /\ table.state = "Open" =>
                  \A top \in Tops(table.shoe.cards) :
                      dealer_hit(table, top)
                          = Result(table, NoReturn, DealerHitPanic)
            /\ (table.state # "Open" /\ busted(table.dealer)) =>
                  \A top \in Tops(table.shoe.cards) :
                      dealer_hit(table, top)
                          = Result(table, Returned("dealer_hit", TRUE), ""))
    /\ [][/\ panic' = DealerHitPanic => table.state = "Open"
          /\ ret'.op = "dealer_hit" =>
                /\ table.state \in {"Dealt", "Flipped"}
                /\ IF busted(table.dealer)
                   THEN table' = table /\ ret'.val = TRUE /\ dealt' = <<>>
                   ELSE /\ ret'.val = busted(table'.dealer)
                        /\ CardMoved(table, table', table.dealer,
                                     table'.dealer, dealt')
                        /\ table'.state = "Flipped"
                        /\ table'.player_hands = table.player_hands]_vars

\* dealer_hit has drawn the dealer's third card without busting the hand,
\* beside a player's hand.
C26_Witness ==
    /\ panic = ""
    /\ table.state = "Flipped"
    /\ ret.op = "dealer_hit"
    /\ ret.val = FALSE
    /\ Len(table.dealer.cards) = 3
    /\ table.dealer.cards[3] = dealt[1]
    /\ Len(table.player_hands) = 1

\* C27: clear_hands in the Flipped phase leaves empty hands for the dealer
\* and every player and the phase Open, and leaves the shoe as it was, its
\* cards and its running count.
C27_ClearHandsKeepsShoe ==
    table.state = "Flipped" =>
        LET r == clear_hands(table)
        IN  /\ r.panic = ""
            /\ r.table.state = "Open"
            /\ r.table.dealer = DefaultHand
            /\ \A player \in Spots : r.table.player_hands[player] = DefaultHand
            /\ r.table.shoe = table.shoe
            /\ r.table = [table EXCEPT
                              !.dealer = DefaultHand,
                              !.player_hands = [i \in DOMAIN @ |-> DefaultHand],
                              !.state = "Open"]

\* clear_hands has returned on a table of one spot whose shoe carries the
\* count of the cards of the round.
C27_Witness ==
    /\ panic = ""
    /\ ret.op = "clear_hands"
    /\ table.state = "Open"
    /\ Len(table.player_hands) = 1
    /\ table.shoe.counter.running_count # 0
    /\ ShoeLen(table.shoe) + 4 = 52 * table.num_decks

\* C28: the counter of a shoe is the sum of the Hi-Lo weights of the cards
\* dealt since the shoe was built or reset, and running_count is that sum
\* over the number of decks the shoe was built with.
C28_CountIsSumOfDealt ==
    /\ shoe.counter.running_count = CountSum(dealt)
    /\ running_count(shoe).den * CountSum(dealt)
          = running_count(shoe).num * shoe.decks
    /\ shoe.decks > 0 => running_count(shoe).den > 0

\* Cards of a two-deck shoe have been dealt and the count is not zero.
C28_Witness ==
    /\ shoe.decks = 2
    /\ Len(dealt) >= 3
    /\ CountSum(dealt) # 0
    /\ running_count(shoe).num = CountSum(dealt)
    /\ running_count(shoe).den = 2

\* The Open phase has no card in any hand; the Dealt phase has exactly two
\* cards in the dealer's hand and two at least in every player's; a
\* dealer's hand that is busted or has more than two cards is in the
\* Flipped phase.
PhaseMatchesHands(t) ==
    /\ t.state = "Open" =>
          /\ is_empty(t.dealer)
          /\ \A player \in DOMAIN t.player_hands : is_empty(t.player_hands[player])
    /\ t.state = "Dealt" =>
          /\ Len(t.dealer.cards) = 2
          /\ \A player \in DOMAIN t.player_hands :
                Len(t.player_hands[player].cards) >= 2
    /\ (busted(t.dealer) \/ Len(t.dealer.cards) > 2) => t.state = "Flipped"

IllegalPhasePanics ==
    {ResetPanic, ClearHandsPanic, DealPanic, PeekPanic, PlayerHitPanic,
     DealerHitPanic, FlipHolePanic}

\* C29: in the loop of the example program, after its first deal and any
\* presses of the Right and Down keys, no Table call has panicked for
\* being made in the wrong phase.
C29_ExampleCallsLegal == panic \notin IllegalPhasePanics

\* The cards of the players' hands from spot p on, then the dealer's.
RECURSIVE HandCardsFrom(_, _)
HandCardsFrom(t, p) ==
    IF p > Len(t.player_hands) THEN t.dealer.cards
    ELSE t.player_hands[p].cards \o HandCardsFrom(t, p + 1)

\* The cards in the hands on the table and in the shoe, as a bag.
TableCards(t) == CardBag(HandCardsFrom(t, 1)) (+) t.shoe.cards

C32_SoftNeverBusts ==
    hand.val.tag = "Soft" =>
        \A card \in InsertCards :
            LET h1 == insert(hand, card).hand
            IN  /\ h1.val # Bust
                /\ h1.val.tag \in {"Soft", "Hard", "Blackjack"}
                /\ h1.val = Blackjack <=>
                      (Len(hand.cards) = 1 /\ is_ace(hand.cards[1])
                         /\ TenValued(card))

\* A card has taken a soft hand of two cards to a hard hand: its ace went
\* down to 1.
C32_Witness ==
    /\ Len(hand.cards) = 3
    /\ insert(insert(DefaultHand, hand.cards[1]).hand, hand.cards[2]).hand.val.tag = "Soft"
    /\ hand.val.tag = "Hard"

\* C33: the u8 subtractions of the Soft arm of insert do not underflow: a
\* Soft(v, a) hand has a <= num_aces and v - 10 * i >= 0 for every i in
\* 0..(num_aces - a).
C33_SoftArmNoUnderflow ==
    hand.val.tag = "Soft" =>
        /\ hand.val.a <= hand.num_aces
        /\ \A i \in 0..(hand.num_aces - hand.val.a) : hand.val.v - 10 * i >= 0
        /\ \A card \in InsertCards :
              InsertSoftPanic(hand, card, hand.val.v, hand.val.a) = ""

\* A soft hand of three aces and another card: two aces forced to 1.
C33_Witness ==
    /\ hand.val.tag = "Soft"
    /\ hand.num_aces = 3
    /\ hand.val.a = 2
    /\ Len(hand.cards) = 4

====
